---------------------------- MODULE Spec2Model ----------------------------
(***************************************************************************)
(* Acoustic data-acquisition firmware for the ESP32-S3 (Active RIR capture *)
(* with level calibration, followed by passive clip capture).              *)
(*                                                                         *)
(* The model follows the sketch whose runRIRCapture has the two stages     *)
(* "short test chirp" and "scaled full chirp" (src/unnamed/part_001).      *)
(* The shared PSRAM buffer is modelled byte by byte.  Every byte carries   *)
(* its provenance and its numeric value:                                   *)
(*    <<"zero", 0>>    written by memset / the clearing loop               *)
(*    <<"chirp", b>>   byte b of a sample written by generateChirp         *)
(*    <<"scaled", b>>  byte b of a chirp sample multiplied by envScale     *)
(*    <<"mic", b>>     byte b delivered by I2Sin.readBytes                 *)
(* Sizes are scaled down (see the bounds below); the transfer loops, the   *)
(* cursors and the order of the device calls are those of the source.      *)
(***************************************************************************)
EXTENDS Integers, Sequences, FiniteSets, TLC

VARIABLES
    pc,              \* position of the single control flow (setup -> ... -> loop)
    audio_buffer,    \* the PSRAM buffer, a sequence of BufBytes cells (offset k is index k+1)
    bytes_played,    \* cursor of the playback loops
    bytes_recorded,  \* cursor of the recording loops
    I2Sout,          \* TRUE while the I2S TX device is begun
    I2Sin,           \* TRUE while the I2S PDM RX device is begun
    envScale,        \* <<num, den>>: the clamped scale factor, <<0, 0>> before calibration
    chirpTail,       \* value of the chirp samples beyond the tabulated head
    clip,            \* loop variable i of runPassiveCapture
    files,           \* files written on the SD card, in order
    opens,           \* names handed to SD.open, in order
    serial,          \* lines printed on Serial that report errors or success
    outStall,        \* TRUE while the begun TX device accepts 0 bytes on every call
    inStall,         \* TRUE while the begun RX device supplies 0 bytes on every call
    first,           \* which stream made the first transfer of the duplex loop
    rirOutcome,      \* the way runRIRCapture returned
    allFull,         \* TRUE while every I2Sout.write of the duplex loop took its whole chunk
    rir,             \* the impulse response handed to the decay analysis
    edc,             \* the Energy Decay Curve the analysis produced
    edcDb,           \* the decay curve in dB handed to the T60 estimators
    noiseFloor,      \* << >> or <<level>>: the detected noise floor in dB
    estimates,       \* the T60 estimate reported per method
    nameLen,         \* <<label length, session id length>> after trim()
    strBytes         \* bytes the sprintf calls store, terminator included, per buffer

vars == << pc, audio_buffer, bytes_played, bytes_recorded, I2Sout, I2Sin,
           envScale, chirpTail, clip, files, opens, serial, outStall,
           inStall, first, rirOutcome, allFull, rir, edc, edcDb, noiseFloor,
           estimates, nameLen, strBytes >>

\* the state of the firmware and the state of the offline analysis
analysisVars == << rir, edc, edcDb, noiseFloor, estimates >>

\* the state of the file-name construction
nameVars == << nameLen, strBytes >>

---------------------------------------------------------------------------
(* Program constants *)

SAMPLE_RATE == 16000
BYTES_PER_SAMPLE == 2
TargetPeak == 31129
FullScale == 32767

(* Bounds: the scaled-down sizes of the model *)

\* chirp_len: samples of the full stimulus (80000 in the firmware)
ChirpLen == 11
\* test_len: samples of the calibration burst (4000 in the firmware); it
\* reaches past the first crest of the sweep (sample 8), as the 0.25 s burst does
TestLen == 9
\* samples of one passive clip (32000 in the firmware)
PassiveLen == 3
\* bytes offered per call in the playback/duplex loops (1024 in the firmware)
ChunkBytes == 4
\* NUM_CLIPS_TO_RECORD (30 in the firmware)
NumClips == 2

RIR_BUFFER_SIZE_BYTES == ChirpLen * BYTES_PER_SAMPLE
TestBytes == TestLen * BYTES_PER_SAMPLE
PASSIVE_BUFFER_SIZE == PassiveLen * BYTES_PER_SAMPLE

---------------------------------------------------------------------------
(* Arithmetic helpers *)

Min(a, b) == IF a < b THEN a ELSE b

Abs(x) == IF x < 0 THEN -x ELSE x

\* C++ float -> int16 conversion and integer division truncate toward zero
TruncDiv(a, b) == IF a >= 0 THEN a \div b ELSE -((-a) \div b)

\* little-endian bytes of an int16
ByteOf(v, b) ==
    LET u == (v + 65536) % 65536
    IN  IF b = 0 THEN u % 256 ELSE u \div 256

\* the int16 made of a low and a high byte
Int16Of(lo, hi) ==
    LET u == lo + 256 * hi
    IN  IF u >= 32768 THEN u - 65536 ELSE u

Zero == << "zero", 0 >>

\* the int16 sample i of a byte buffer
SampleAt(buf, i) == Int16Of(buf[2 * i + 1][2], buf[2 * i + 2][2])

---------------------------------------------------------------------------
(* generateChirp *)

\* (int16_t)(32767.0*sin(phase)) for i = 0..8 at f0 = 500 Hz, 16 kHz
ChirpHead == << 0, 6392, 12540, 18206, 23172, 27248, 30276, 32140, 32766 >>

\* the extreme and the middle values 32767.0*sin(phase) can truncate to
TailVals == { -32767, 0, 32767 }

\* Chirp with the amplitude 65534.0 in place of 32767.0
Chirp_Doubled(i, tail) == 2 * (IF i < Len(ChirpHead) THEN ChirpHead[i + 1] ELSE tail)

\* sample i of the sweep: (int16_t)(32767.0 * sin(phase))
Chirp(i, tail) == IF i < Len(ChirpHead) THEN ChirpHead[i + 1] ELSE tail

\* buf with samples 0..len-1 replaced by the chirp
generateChirp(buf, len, tail) ==
    [ k \in 1..Len(buf) |->
        IF k <= len * BYTES_PER_SAMPLE
        THEN << "chirp", ByteOf(Chirp((k - 1) \div 2, tail), (k - 1) % 2) >>
        ELSE buf[k] ]

\* memset(p, 0, n) and the clearing loop of stage 1
memset0(buf, n) == [ k \in 1..Len(buf) |-> IF k <= n THEN Zero ELSE buf[k] ]

---------------------------------------------------------------------------
(* Level calibration *)

Unset == << 0, 0 >>


\* PeakOf with the scan stopping one sample early
PeakOf_SkipLast(buf, len) ==
    LET RECURSIVE pk(_)
        pk(n) == IF n = 0 THEN 0
                 ELSE LET v == Abs(SampleAt(buf, n - 1))
                          r == pk(n - 1)
                      IN  IF v > r THEN v ELSE r
    IN  pk(len - 1)

\* peak of |buf[i]| over the first len samples (abs works on int: |-32768| = 32768)
PeakOf(buf, len) ==
    LET RECURSIVE pk(_)
        pk(n) == IF n = 0 THEN 0
                 ELSE LET v == Abs(SampleAt(buf, n - 1))
                          r == pk(n - 1)
                      IN  IF v > r THEN v ELSE r
    IN  pk(len)

\* the measurement with a guard that returns the scale 0 for a silent burst
computeEnvironmentScaleFromTestBurst_ZeroGuard(buf, len, target_peak) ==
    IF PeakOf(buf, len) = 0 THEN << 0, 1 >>
    ELSE << target_peak, PeakOf(buf, len) >>

\* scale = target_peak / peak as the fraction <<target_peak, peak>>; a zero
\* peak gives the float +inf, written <<target_peak, 0>>.  The rms the
\* function also computes is only printed.
computeEnvironmentScaleFromTestBurst(buf, len, target_peak) ==
    << target_peak, PeakOf(buf, len) >>

\* scale > 1.0 as a comparison of fractions (+inf > 1.0)
GreaterThanOne(s) == s[2] = 0 \/ s[1] > s[2]


\* ClampScale with the clamp left out
ClampScale_NoClamp(s) == s

\* if(envScale > 1.0) envScale = 1.0;
ClampScale(s) == IF GreaterThanOne(s) THEN << 1, 1 >> ELSE s

\* (int16_t)(samples[i] * envScale), exact product truncated toward zero
ScaleSample(v, s) == TruncDiv(v * s[1], s[2])

\* ScaleBuffer with the multiplication applied twice to every sample
ScaleBuffer_Twice(buf, len, s) ==
    [ k \in 1..Len(buf) |->
        IF k <= len * BYTES_PER_SAMPLE
        THEN << "scaled", ByteOf(ScaleSample(ScaleSample(SampleAt(buf, (k - 1) \div 2), s), s), (k - 1) % 2) >>
        ELSE buf[k] ]

\* the loop that multiplies every sample of the buffer by envScale
ScaleBuffer(buf, len, s) ==
    [ k \in 1..Len(buf) |->
        IF k <= len * BYTES_PER_SAMPLE
        THEN << "scaled", ByteOf(ScaleSample(SampleAt(buf, (k - 1) \div 2), s), (k - 1) % 2) >>
        ELSE buf[k] ]

\* the stimulus byte generated for buffer offset k
StimulusCell(k, tail, s) ==
    << "scaled", ByteOf(ScaleSample(Chirp(k \div 2, tail), s), k % 2) >>

---------------------------------------------------------------------------
(* Serial output and the SD card *)

Msg(m, a) == [ msg |-> m, arg |-> a ]

RirName == [ kind |-> "RIR", idx |-> 0 ]
PassiveName(i) == [ kind |-> "PASSIVE", idx |-> i ]

\* the bytes of a uint16 / uint32 as f.write((uint8_t*)&x, n) stores them
LE16(x) == << x % 256, (x \div 256) % 256 >>
LE32(x) == << x % 256, (x \div 256) % 256, (x \div 65536) % 256,
              (x \div 16777216) % 256 >>

\* ASCII codes of the four chunk tags
TagRIFF == << 82, 73, 70, 70 >>
TagWAVE == << 87, 65, 86, 69 >>
TagFmt == << 102, 109, 116, 32 >>
TagData == << 100, 97, 116, 97 >>

\* the header with the RIFF chunk size counted from the start of the file
WavHeader_ChunkSize44(data_size) ==
    LET datasize == data_size
        bits == 16
        channels == 1
        chunkSize == 44 + datasize
        byteRate == (SAMPLE_RATE * channels * bits) \div 8
        blockAlign == ((channels * bits) \div 8) % 65536
    IN  TagRIFF \o LE32(chunkSize) \o TagWAVE \o TagFmt \o LE32(16)
          \o LE16(1) \o LE16(channels) \o LE32(SAMPLE_RATE) \o LE32(byteRate)
          \o LE16(blockAlign) \o LE16(bits) \o TagData \o LE32(datasize)

\* the header bytes saveWAV writes, in the order of its f.write calls
\* (size_t and uint32_t are both 32 bits wide: datasize = data_size)
WavHeader(data_size) ==
    LET datasize == data_size
        bits == 16
        channels == 1
        chunkSize == 36 + datasize
        byteRate == (SAMPLE_RATE * channels * bits) \div 8
        blockAlign == ((channels * bits) \div 8) % 65536
    IN  TagRIFF \o LE32(chunkSize) \o TagWAVE \o TagFmt \o LE32(16)
          \o LE16(1) \o LE16(channels) \o LE32(SAMPLE_RATE) \o LE32(byteRate)
          \o LE16(blockAlign) \o LE16(bits) \o TagData \o LE32(datasize)

\* WavFile that writes only the bytes the recording loop received
WavFile_RecordedOnly(name, data_size) ==
    [ name |-> name, data_size |-> data_size,
      header |-> WavHeader(data_size),
      data |-> SubSeq(audio_buffer, 1, Min(data_size, bytes_recorded)) ]

\* saveWAV(filename, data_size): the file written when SD.open succeeds
WavFile(name, data_size) ==
    [ name |-> name, data_size |-> data_size,
      header |-> WavHeader(data_size),
      data |-> SubSeq(audio_buffer, 1, data_size) ]

\* what saveWAV prints after "Saving WAV: ..."
saveWAVLog(ok, a) ==
    IF ok THEN << Msg("WAV file saved.", a) >>
          ELSE << Msg("ERROR: Cannot open file", a) >>

\* saveWAV without the check of the File that SD.open returned
saveWAV_NoOpenCheck(name, data_size, ok) ==
    /\ opens' = Append(opens, name)
    /\ files' = Append(files, WavFile(name, data_size))

\* saveWAV(filename, data_size): SD.open, then header and data, or the early return
saveWAV(name, data_size, ok) ==
    /\ opens' = Append(opens, name)
    /\ files' = IF ok THEN Append(files, WavFile(name, data_size)) ELSE files

\* the byte value the microphone delivers
MicByte == 255

\* the return values of a transfer call that offers chunk bytes
Returns(chunk, stalled) == IF stalled THEN { 0 } ELSE 0..chunk

\* buf after readBytes stored n bytes at offset at
StoreMic(buf, at, n) ==
    [ k \in 1..Len(buf) |->
        IF k > at /\ k <= at + n THEN << "mic", MicByte >> ELSE buf[k] ]

---------------------------------------------------------------------------
(* Initial state: power-on, before setup() *)

Init ==
    /\ pc = "setup"
    /\ audio_buffer = << >>
    /\ bytes_played = 0
    /\ bytes_recorded = 0
    /\ I2Sout = FALSE
    /\ I2Sin = FALSE
    /\ envScale = Unset
    /\ chirpTail \in TailVals
    /\ clip = 0
    /\ files = << >>
    /\ opens = << >>
    /\ serial = << >>
    /\ outStall = FALSE
    /\ inStall = FALSE
    /\ first = "none"
    /\ rirOutcome = "none"
    /\ allFull = TRUE
    /\ nameLen = << >>
    /\ strBytes = << >>
    /\ rir = << >>
    /\ edc = << >>
    /\ edcDb = << >>
    /\ noiseFloor = << >>
    /\ estimates = << >>

---------------------------------------------------------------------------
(* setup() and runDataAcquisitionSession() *)

\* Setup without the check of the pointer heap_caps_malloc returned
Setup_NoAllocCheck ==
    /\ pc = "setup"
    /\ \E sdOk \in BOOLEAN, allocOk \in BOOLEAN :
         IF ~sdOk
         THEN /\ serial' = Append(serial, Msg("ERROR: SD card init failed!", 0))
              /\ pc' = "halt"
              /\ audio_buffer' = audio_buffer
         ELSE /\ serial' = serial
              /\ pc' = "input"
              /\ audio_buffer' =
                   IF allocOk
                   THEN [ k \in 1..RIR_BUFFER_SIZE_BYTES |-> << "uninit", 0 >> ]
                   ELSE audio_buffer
    /\ UNCHANGED << bytes_played, bytes_recorded, I2Sout, I2Sin, envScale,
                    chirpTail, clip, files, opens, outStall, inStall,
                    first, rirOutcome >>
    /\ UNCHANGED analysisVars
    /\ UNCHANGED allFull
    /\ UNCHANGED nameVars

\* SD.begin and heap_caps_malloc; either failure ends in while(1)
Setup ==
    /\ pc = "setup"
    /\ \E sdOk \in BOOLEAN, allocOk \in BOOLEAN :
         IF ~sdOk
         THEN /\ serial' = Append(serial, Msg("ERROR: SD card init failed!", 0))
              /\ pc' = "halt"
              /\ audio_buffer' = audio_buffer
         ELSE IF ~allocOk
         THEN /\ serial' = Append(serial, Msg("ERROR: Failed to allocate PSRAM buffer!", 0))
              /\ pc' = "halt"
              /\ audio_buffer' = audio_buffer
         ELSE /\ serial' = serial
              /\ pc' = "input"
              /\ audio_buffer' = [ k \in 1..RIR_BUFFER_SIZE_BYTES |-> << "uninit", 0 >> ]
    /\ UNCHANGED << bytes_played, bytes_recorded, I2Sout, I2Sin, envScale,
                    chirpTail, clip, files, opens, outStall, inStall,
                    first, rirOutcome >>
    /\ UNCHANGED analysisVars
    /\ UNCHANGED allFull
    /\ UNCHANGED nameVars

\* getUserInput and the creation of the session directory
GetUserInput ==
    /\ pc = "input"
    /\ pc' = "confirm1"
    /\ UNCHANGED << audio_buffer, bytes_played, bytes_recorded, I2Sout,
                    I2Sin, envScale, chirpTail, clip, files, opens, serial,
                    outStall, inStall, first, rirOutcome >>
    /\ UNCHANGED analysisVars
    /\ UNCHANGED allFull
    /\ UNCHANGED nameVars

\* waitForUserConfirmation before the RIR measurement
Confirm1 ==
    /\ pc = "confirm1"
    /\ pc' = "rir"
    /\ UNCHANGED << audio_buffer, bytes_played, bytes_recorded, I2Sout,
                    I2Sin, envScale, chirpTail, clip, files, opens, serial,
                    outStall, inStall, first, rirOutcome >>
    /\ UNCHANGED analysisVars
    /\ UNCHANGED allFull
    /\ UNCHANGED nameVars

\* waitForUserConfirmation before the passive capture
Confirm2 ==
    /\ pc = "confirm2"
    /\ pc' = "passive"
    /\ UNCHANGED << audio_buffer, bytes_played, bytes_recorded, I2Sout,
                    I2Sin, envScale, chirpTail, clip, files, opens, serial,
                    outStall, inStall, first, rirOutcome >>
    /\ UNCHANGED analysisVars
    /\ UNCHANGED allFull
    /\ UNCHANGED nameVars

\* the closing message of runDataAcquisitionSession; loop() only delays
Complete ==
    /\ pc = "complete"
    /\ serial' = Append(serial, Msg("Data collection complete.", 0))
    /\ pc' = "done"
    /\ UNCHANGED << audio_buffer, bytes_played, bytes_recorded, I2Sout,
                    I2Sin, envScale, chirpTail, clip, files, opens,
                    outStall, inStall, first, rirOutcome >>
    /\ UNCHANGED analysisVars
    /\ UNCHANGED allFull
    /\ UNCHANGED nameVars

---------------------------------------------------------------------------
(* runRIRCapture, stage 1: the short test chirp *)

\* generateChirp over the whole buffer, the clearing loop, generateChirp over
\* the burst, then I2Sout.begin
RIRStart ==
    /\ pc = "rir"
    /\ audio_buffer' =
         generateChirp(
           memset0(generateChirp(audio_buffer, ChirpLen, chirpTail),
                   ChirpLen * BYTES_PER_SAMPLE),
           TestLen, chirpTail)
    /\ \E ok \in BOOLEAN, stall \in BOOLEAN :
         IF ok
         THEN /\ I2Sout' = TRUE
              /\ outStall' = stall
              /\ bytes_played' = 0
              /\ pc' = "cal_loop"
              /\ UNCHANGED << serial, rirOutcome >>
         ELSE /\ serial' = Append(serial, Msg("ERROR: I2S TX init failed!", 0))
              /\ rirOutcome' = "tx_init_failed_stage1"
              /\ pc' = "confirm2"
              /\ UNCHANGED << I2Sout, outStall, bytes_played >>
    /\ UNCHANGED << bytes_recorded, I2Sin, envScale, chirpTail, clip, files,
                    opens, inStall, first >>
    /\ UNCHANGED analysisVars
    /\ UNCHANGED allFull
    /\ UNCHANGED nameVars

\* one iteration of the test-chirp playback loop
CalWrite ==
    /\ pc = "cal_loop"
    /\ bytes_played < TestBytes
    /\ LET chunk == Min(ChunkBytes, TestBytes - bytes_played)
       IN  \E written \in Returns(chunk, outStall) :
             bytes_played' = bytes_played + written
    /\ UNCHANGED << pc, audio_buffer, bytes_recorded, I2Sout, I2Sin,
                    envScale, chirpTail, clip, files, opens, serial,
                    outStall, inStall, first, rirOutcome >>
    /\ UNCHANGED analysisVars
    /\ UNCHANGED allFull
    /\ UNCHANGED nameVars

\* CalFinish without the I2Sout.end() that closes stage 1
CalFinish_NoEnd ==
    /\ pc = "cal_loop"
    /\ bytes_played >= TestBytes
    /\ envScale' =
         ClampScale(computeEnvironmentScaleFromTestBurst(audio_buffer, TestLen, TargetPeak))
    /\ audio_buffer' =
         ScaleBuffer(
           generateChirp(memset0(audio_buffer, ChirpLen * BYTES_PER_SAMPLE),
                         ChirpLen, chirpTail),
           ChirpLen, envScale')
    /\ serial' = Append(serial, Msg("Test burst measured: peak",
                                     PeakOf(audio_buffer, TestLen)))
    /\ pc' = "tx_begin"
    /\ UNCHANGED << bytes_played, bytes_recorded, I2Sout, outStall, I2Sin,
                    chirpTail, clip, files, opens, inStall, first,
                    rirOutcome >>
    /\ UNCHANGED analysisVars
    /\ UNCHANGED allFull
    /\ UNCHANGED nameVars

\* I2Sout.end, the scale measurement with its clamp, and the preparation of
\* the scaled full chirp
CalFinish ==
    /\ pc = "cal_loop"
    /\ bytes_played >= TestBytes
    /\ I2Sout' = FALSE
    /\ outStall' = FALSE
    /\ envScale' =
         ClampScale(computeEnvironmentScaleFromTestBurst(audio_buffer, TestLen, TargetPeak))
    /\ audio_buffer' =
         ScaleBuffer(
           generateChirp(memset0(audio_buffer, ChirpLen * BYTES_PER_SAMPLE),
                         ChirpLen, chirpTail),
           ChirpLen, envScale')
    /\ serial' = Append(serial, Msg("Test burst measured: peak",
                                     PeakOf(audio_buffer, TestLen)))
    /\ pc' = "tx_begin"
    /\ UNCHANGED << bytes_played, bytes_recorded, I2Sin, chirpTail, clip,
                    files, opens, inStall, first, rirOutcome >>
    /\ UNCHANGED analysisVars
    /\ UNCHANGED allFull
    /\ UNCHANGED nameVars

---------------------------------------------------------------------------
(* runRIRCapture, stage 2: scaled playback and simultaneous recording *)

\* TxBegin whose failure ends the whole session
TxBegin_AbortSession ==
    /\ pc = "tx_begin"
    /\ \E ok \in BOOLEAN, stall \in BOOLEAN :
         IF ok
         THEN /\ I2Sout' = TRUE
              /\ outStall' = stall
              /\ pc' = "rx_begin"
              /\ UNCHANGED << serial, rirOutcome >>
         ELSE /\ serial' = Append(serial, Msg("ERROR: I2S TX init failed!", 0))
              /\ rirOutcome' = "tx_init_failed"
              /\ pc' = "complete"
              /\ UNCHANGED << I2Sout, outStall >>
    /\ UNCHANGED << audio_buffer, bytes_played, bytes_recorded, I2Sin,
                    envScale, chirpTail, clip, files, opens, inStall,
                    first >>
    /\ UNCHANGED analysisVars
    /\ UNCHANGED allFull
    /\ UNCHANGED nameVars

\* I2Sout.begin of stage 2
TxBegin ==
    /\ pc = "tx_begin"
    /\ \E ok \in BOOLEAN, stall \in BOOLEAN :
         IF ok
         THEN /\ I2Sout' = TRUE
              /\ outStall' = stall
              /\ pc' = "rx_begin"
              /\ UNCHANGED << serial, rirOutcome >>
         ELSE /\ serial' = Append(serial, Msg("ERROR: I2S TX init failed!", 0))
              /\ rirOutcome' = "tx_init_failed"
              /\ pc' = "confirm2"
              /\ UNCHANGED << I2Sout, outStall >>
    /\ UNCHANGED << audio_buffer, bytes_played, bytes_recorded, I2Sin,
                    envScale, chirpTail, clip, files, opens, inStall,
                    first >>
    /\ UNCHANGED analysisVars
    /\ UNCHANGED allFull
    /\ UNCHANGED nameVars


\* RxBegin whose failure branch falls through into the duplex loop
RxBegin_NoReturn ==
    /\ pc = "rx_begin"
    /\ \E ok \in BOOLEAN, stall \in BOOLEAN :
         IF ok
         THEN /\ I2Sin' = TRUE
              /\ inStall' = stall
              /\ bytes_played' = 0
              /\ bytes_recorded' = 0
              /\ pc' = "dx_write"
              /\ UNCHANGED << I2Sout, outStall, serial, rirOutcome >>
         ELSE /\ serial' = Append(serial, Msg("ERROR: I2S PDM init failed!", 0))
              /\ I2Sout' = FALSE
              /\ outStall' = FALSE
              /\ rirOutcome' = "rx_init_failed"
              /\ bytes_played' = 0
              /\ bytes_recorded' = 0
              /\ pc' = "dx_write"
              /\ UNCHANGED << I2Sin, inStall >>
    /\ UNCHANGED << audio_buffer, envScale, chirpTail, clip, files, opens,
                    first >>
    /\ UNCHANGED analysisVars
    /\ allFull' = TRUE
    /\ UNCHANGED nameVars

\* RxBegin whose failure branch returns without I2Sout.end()
RxBegin_NoEnd ==
    /\ pc = "rx_begin"
    /\ \E ok \in BOOLEAN, stall \in BOOLEAN :
         IF ok
         THEN /\ I2Sin' = TRUE
              /\ inStall' = stall
              /\ bytes_played' = 0
              /\ bytes_recorded' = 0
              /\ pc' = "dx_write"
              /\ UNCHANGED << I2Sout, outStall, serial, rirOutcome >>
         ELSE /\ serial' = Append(serial, Msg("ERROR: I2S PDM init failed!", 0))
              /\ rirOutcome' = "rx_init_failed"
              /\ pc' = "confirm2"
              /\ UNCHANGED << I2Sout, outStall, I2Sin, inStall, bytes_played,
                              bytes_recorded >>
    /\ UNCHANGED << audio_buffer, envScale, chirpTail, clip, files, opens,
                    first >>
    /\ UNCHANGED analysisVars
    /\ allFull' = TRUE
    /\ UNCHANGED nameVars

\* RxBegin followed by a loop that records before it plays
RxBegin_ReadFirst ==
    /\ pc = "rx_begin"
    /\ \E ok \in BOOLEAN, stall \in BOOLEAN :
         IF ok
         THEN /\ I2Sin' = TRUE
              /\ inStall' = stall
              /\ bytes_played' = 0
              /\ bytes_recorded' = 0
              /\ pc' = "dx_read"
              /\ UNCHANGED << I2Sout, outStall, serial, rirOutcome >>
         ELSE /\ serial' = Append(serial, Msg("ERROR: I2S PDM init failed!", 0))
              /\ I2Sout' = FALSE
              /\ outStall' = FALSE
              /\ rirOutcome' = "rx_init_failed"
              /\ pc' = "confirm2"
              /\ UNCHANGED << I2Sin, inStall, bytes_played, bytes_recorded >>
    /\ UNCHANGED << audio_buffer, envScale, chirpTail, clip, files, opens,
                    first >>
    /\ UNCHANGED analysisVars
    /\ allFull' = TRUE
    /\ UNCHANGED nameVars

\* I2Sin.begin of stage 2; on failure the output is ended before the return
RxBegin ==
    /\ pc = "rx_begin"
    /\ \E ok \in BOOLEAN, stall \in BOOLEAN :
         IF ok
         THEN /\ I2Sin' = TRUE
              /\ inStall' = stall
              /\ bytes_played' = 0
              /\ bytes_recorded' = 0
              /\ pc' = "dx_write"
              /\ UNCHANGED << I2Sout, outStall, serial, rirOutcome >>
         ELSE /\ serial' = Append(serial, Msg("ERROR: I2S PDM init failed!", 0))
              /\ I2Sout' = FALSE
              /\ outStall' = FALSE
              /\ rirOutcome' = "rx_init_failed"
              /\ pc' = "confirm2"
              /\ UNCHANGED << I2Sin, inStall, bytes_played, bytes_recorded >>
    /\ UNCHANGED << audio_buffer, envScale, chirpTail, clip, files, opens,
                    first >>
    /\ UNCHANGED analysisVars
    /\ allFull' = TRUE
    /\ UNCHANGED nameVars

\* first half of a duplex iteration: I2Sout.write of the next chunk
DuplexWrite ==
    /\ pc = "dx_write"
    /\ bytes_played < RIR_BUFFER_SIZE_BYTES
    /\ LET chunk == Min(ChunkBytes, RIR_BUFFER_SIZE_BYTES - bytes_played)
       IN  \E written \in Returns(chunk, outStall) :
             /\ bytes_played' = bytes_played + written
             /\ allFull' = (allFull /\ written = chunk)
    /\ first' = IF first = "none" THEN "out" ELSE first
    /\ pc' = "dx_read"
    /\ UNCHANGED << audio_buffer, bytes_recorded, I2Sout, I2Sin, envScale,
                    chirpTail, clip, files, opens, serial, outStall, inStall,
                    rirOutcome >>
    /\ UNCHANGED analysisVars
    /\ UNCHANGED nameVars

\* DuplexRead that always asks for a whole chunk
DuplexRead_FixedChunk ==
    /\ pc = "dx_read"
    /\ LET chunk == ChunkBytes
       IN  \E read \in Returns(chunk, inStall) :
             /\ audio_buffer' = StoreMic(audio_buffer, bytes_recorded, read)
             /\ bytes_recorded' = bytes_recorded + read
    /\ first' = IF first = "none" THEN "in" ELSE first
    /\ pc' = "dx_write"
    /\ UNCHANGED << bytes_played, I2Sout, I2Sin, envScale, chirpTail, clip,
                    files, opens, serial, outStall, inStall,
                    rirOutcome >>
    /\ UNCHANGED analysisVars
    /\ UNCHANGED allFull
    /\ UNCHANGED nameVars

\* second half of a duplex iteration: I2Sin.readBytes into the same buffer
DuplexRead ==
    /\ pc = "dx_read"
    /\ LET chunk == Min(ChunkBytes, RIR_BUFFER_SIZE_BYTES - bytes_recorded)
       IN  \E read \in Returns(chunk, inStall) :
             /\ audio_buffer' = StoreMic(audio_buffer, bytes_recorded, read)
             /\ bytes_recorded' = bytes_recorded + read
    /\ first' = IF first = "none" THEN "in" ELSE first
    /\ pc' = "dx_write"
    /\ UNCHANGED << bytes_played, I2Sout, I2Sin, envScale, chirpTail, clip,
                    files, opens, serial, outStall, inStall,
                    rirOutcome >>
    /\ UNCHANGED analysisVars
    /\ UNCHANGED allFull
    /\ UNCHANGED nameVars

\* the code after the duplex loop: both devices ended, saveWAV, the message
DuplexFinish ==
    /\ pc = "dx_write"
    /\ bytes_played >= RIR_BUFFER_SIZE_BYTES
    /\ I2Sout' = FALSE
    /\ outStall' = FALSE
    /\ I2Sin' = FALSE
    /\ inStall' = FALSE
    /\ \E ok \in BOOLEAN :
         /\ saveWAV(RirName, RIR_BUFFER_SIZE_BYTES, ok)
         /\ serial' = serial \o saveWAVLog(ok, 0)
                             \o << Msg("Raw RIR data saved to", 0) >>
    /\ rirOutcome' = "captured"
    /\ pc' = "confirm2"
    /\ UNCHANGED << audio_buffer, bytes_played, bytes_recorded, envScale,
                    chirpTail, clip, first >>
    /\ UNCHANGED analysisVars
    /\ UNCHANGED allFull
    /\ UNCHANGED nameVars

---------------------------------------------------------------------------
(* runPassiveCapture *)

\* I2Sin.begin of the passive phase
PassiveBegin ==
    /\ pc = "passive"
    /\ \E ok \in BOOLEAN, stall \in BOOLEAN :
         IF ok
         THEN /\ I2Sin' = TRUE
              /\ inStall' = stall
              /\ clip' = 1
              /\ pc' = "p_clip"
              /\ serial' = serial
         ELSE /\ serial' = Append(serial, Msg("ERROR: I2S PDM init failed!", 1))
              /\ pc' = "complete"
              /\ UNCHANGED << I2Sin, inStall, clip >>
    /\ UNCHANGED << audio_buffer, bytes_played, bytes_recorded, I2Sout,
                    envScale, chirpTail, files, opens, outStall,
                    first, rirOutcome >>
    /\ UNCHANGED analysisVars
    /\ UNCHANGED allFull
    /\ UNCHANGED nameVars

\* PassiveClipStart without the memset
PassiveClipStart_NoMemset ==
    /\ pc = "p_clip"
    /\ clip <= NumClips
    /\ audio_buffer' = audio_buffer
    /\ bytes_recorded' = 0
    /\ pc' = "p_read"
    /\ UNCHANGED << bytes_played, I2Sout, I2Sin, envScale, chirpTail, clip,
                    files, opens, serial, outStall, inStall, first,
                    rirOutcome >>
    /\ UNCHANGED analysisVars
    /\ UNCHANGED allFull
    /\ UNCHANGED nameVars

\* head of the for loop body: memset and the reset of the cursor
PassiveClipStart ==
    /\ pc = "p_clip"
    /\ clip <= NumClips
    /\ audio_buffer' = memset0(audio_buffer, PASSIVE_BUFFER_SIZE)
    /\ bytes_recorded' = 0
    /\ pc' = "p_read"
    /\ UNCHANGED << bytes_played, I2Sout, I2Sin, envScale, chirpTail, clip,
                    files, opens, serial, outStall, inStall, first,
                    rirOutcome >>
    /\ UNCHANGED analysisVars
    /\ UNCHANGED allFull
    /\ UNCHANGED nameVars

\* one iteration of the clip recording loop
PassiveRead ==
    /\ pc = "p_read"
    /\ bytes_recorded < PASSIVE_BUFFER_SIZE
    /\ LET chunk == PASSIVE_BUFFER_SIZE - bytes_recorded
       IN  \E read \in Returns(chunk, inStall) :
             /\ audio_buffer' = StoreMic(audio_buffer, bytes_recorded, read)
             /\ bytes_recorded' = bytes_recorded + read
    /\ UNCHANGED << pc, bytes_played, I2Sout, I2Sin, envScale, chirpTail,
                    clip, files, opens, serial, outStall, inStall,
                    first, rirOutcome >>
    /\ UNCHANGED analysisVars
    /\ UNCHANGED allFull
    /\ UNCHANGED nameVars

\* PassiveSave whose recording loop stops at the first bytes received
PassiveSave_AfterFirstRead ==
    /\ pc = "p_read"
    /\ bytes_recorded > 0
    /\ \E ok \in BOOLEAN :
         /\ saveWAV(PassiveName(clip), PASSIVE_BUFFER_SIZE, ok)
         /\ serial' = serial \o saveWAVLog(ok, clip) \o << Msg("Saved", clip) >>
    /\ clip' = clip + 1
    /\ pc' = "p_clip"
    /\ UNCHANGED << audio_buffer, bytes_played, bytes_recorded, I2Sout,
                    I2Sin, envScale, chirpTail, outStall, inStall,
                    first, rirOutcome >>
    /\ UNCHANGED analysisVars
    /\ UNCHANGED allFull
    /\ UNCHANGED nameVars

\* saveWAV of the clip, the message, the delay and i++
PassiveSave ==
    /\ pc = "p_read"
    /\ bytes_recorded >= PASSIVE_BUFFER_SIZE
    /\ \E ok \in BOOLEAN :
         /\ saveWAV(PassiveName(clip), PASSIVE_BUFFER_SIZE, ok)
         /\ serial' = serial \o saveWAVLog(ok, clip) \o << Msg("Saved", clip) >>
    /\ clip' = clip + 1
    /\ pc' = "p_clip"
    /\ UNCHANGED << audio_buffer, bytes_played, bytes_recorded, I2Sout,
                    I2Sin, envScale, chirpTail, outStall, inStall,
                    first, rirOutcome >>
    /\ UNCHANGED analysisVars
    /\ UNCHANGED allFull
    /\ UNCHANGED nameVars

\* exit of the for loop: I2Sin.end
PassiveEnd ==
    /\ pc = "p_clip"
    /\ clip > NumClips
    /\ I2Sin' = FALSE
    /\ inStall' = FALSE
    /\ pc' = "complete"
    /\ UNCHANGED << audio_buffer, bytes_played, bytes_recorded, I2Sout,
                    envScale, chirpTail, clip, files, opens, serial,
                    outStall, first, rirOutcome >>
    /\ UNCHANGED analysisVars
    /\ UNCHANGED allFull
    /\ UNCHANGED nameVars

---------------------------------------------------------------------------

Next ==
    \/ Setup
    \/ GetUserInput
    \/ Confirm1
    \/ RIRStart
    \/ CalWrite
    \/ CalFinish
    \/ TxBegin
    \/ RxBegin
    \/ DuplexWrite
    \/ DuplexRead
    \/ DuplexFinish
    \/ Confirm2
    \/ PassiveBegin
    \/ PassiveClipStart
    \/ PassiveRead
    \/ PassiveSave
    \/ PassiveEnd
    \/ Complete

Spec == Init /\ [][Next]_vars

\* the single control flow always executes its next statement
FairSpec == Spec /\ WF_vars(Next)

---------------------------------------------------------------------------
(* The scale computation as a function of an arbitrary burst *)

\* sample values a measured burst is drawn from
PeakVals == { -32768, -31130, -1, 0, 1, 31128, 31129, 32767 }

\* target peaks the function is applied with
Targets == { 1, TargetPeak, 32767, 40000 }

\* a burst buffer whose first two samples are drawn and whose other samples are 0
CalInit ==
    /\ pc = "calibrate"
    /\ \E a \in PeakVals, b \in PeakVals :
         audio_buffer =
           [ k \in 1..RIR_BUFFER_SIZE_BYTES |->
               IF k <= BYTES_PER_SAMPLE THEN << "mic", ByteOf(a, k - 1) >>
               ELSE IF k <= 2 * BYTES_PER_SAMPLE
                    THEN << "mic", ByteOf(b, k - 1 - BYTES_PER_SAMPLE) >>
               ELSE Zero ]
    /\ bytes_played = 0
    /\ bytes_recorded = 0
    /\ I2Sout = FALSE
    /\ I2Sin = FALSE
    /\ envScale = Unset
    /\ chirpTail = 0
    /\ clip = 0
    /\ files = << >>
    /\ opens = << >>
    /\ serial = << >>
    /\ outStall = FALSE
    /\ inStall = FALSE
    /\ first = "none"
    /\ rirOutcome = "none"
    /\ allFull = TRUE
    /\ nameLen = << >>
    /\ strBytes = << >>
    /\ rir = << >>
    /\ edc = << >>
    /\ edcDb = << >>
    /\ noiseFloor = << >>
    /\ estimates = << >>

\* the measurement and the clamp applied to the drawn burst
Calibrate ==
    /\ pc = "calibrate"
    /\ \E t \in Targets :
         envScale' =
           ClampScale(computeEnvironmentScaleFromTestBurst(audio_buffer, TestLen, t))
    /\ pc' = "calibrated"
    /\ UNCHANGED << audio_buffer, bytes_played, bytes_recorded, I2Sout, I2Sin,
                    chirpTail, clip, files, opens, serial, outStall, inStall,
                    first, rirOutcome >>
    /\ UNCHANGED analysisVars
    /\ UNCHANGED allFull
    /\ UNCHANGED nameVars

CalNext == Next \/ Calibrate

CalSpec == (Init \/ CalInit) /\ [][CalNext]_vars

\* the exit of the stage-1 playback loop with an arbitrary burst in the
\* buffer: the first two samples are drawn, the other samples are 0
BurstInit ==
    /\ pc = "cal_loop"
    /\ \E a \in PeakVals, b \in PeakVals :
         audio_buffer =
           [ k \in 1..RIR_BUFFER_SIZE_BYTES |->
               IF k <= BYTES_PER_SAMPLE THEN << "mic", ByteOf(a, k - 1) >>
               ELSE IF k <= 2 * BYTES_PER_SAMPLE
                    THEN << "mic", ByteOf(b, k - 1 - BYTES_PER_SAMPLE) >>
               ELSE Zero ]
    /\ bytes_played = TestBytes
    /\ bytes_recorded = 0
    /\ I2Sout = TRUE
    /\ I2Sin = FALSE
    /\ envScale = Unset
    /\ chirpTail = FullScale
    /\ clip = 0
    /\ files = << >>
    /\ opens = << >>
    /\ serial = << >>
    /\ outStall = FALSE
    /\ inStall = FALSE
    /\ first = "none"
    /\ rirOutcome = "none"
    /\ allFull = TRUE
    /\ nameLen = << >>
    /\ strBytes = << >>
    /\ rir = << >>
    /\ edc = << >>
    /\ edcDb = << >>
    /\ noiseFloor = << >>
    /\ estimates = << >>

\* the session continued from the measurement of an arbitrary burst
BurstSpec == (Init \/ BurstInit) /\ [][Next]_vars

---------------------------------------------------------------------------
(* Decay analysis of an impulse response (DecayAnalyzer, step 1).  The     *)
(* samples of a response are real numbers; small integers stand for them.  *)
(* A level in dB, 10*log10(e/e0), is kept as the ratio <<e, e0>> it is the  *)
(* logarithm of: log10 is increasing, so levels compare as their ratios,   *)
(* and a level is defined only for e0 > 0.                                 *)

\* number of samples of an impulse response
RirLen == 3

\* the sample values of an impulse response
RirVals == { -2, -1, 0, 1, 2 }

\* the responses the extractor can hand over: it fails on a silent
\* recording, so a response has at least one non-zero sample
Responses ==
    { h \in [ 1..RirLen -> RirVals ] : \E t \in 1..RirLen : h[t] # 0 }

\* the accumulation run forward from the first sample
ReverseEnergy_Forward(h, t) ==
    LET RECURSIVE acc(_)
        acc(u) == IF u < 1 THEN 0 ELSE h[u] * h[u] + acc(u - 1)
    IN  acc(t)

\* sum of the squared samples from index t to the end, accumulated from
\* the end downwards
ReverseEnergy(h, t) ==
    LET RECURSIVE acc(_)
        acc(u) == IF u > Len(h) THEN 0 ELSE h[u] * h[u] + acc(u + 1)
    IN  acc(t)

\* the level of energy e relative to the total e0
LevelOf(e, e0) == << e, e0 >>

\* the curve: the level of every accumulated value relative to the first
EnergyDecayCurve(h) ==
    [ t \in 1..Len(h) |-> LevelOf(ReverseEnergy(h, t), ReverseEnergy(h, 1)) ]

\* level a <= level b
LevelLeq(a, b) == a[2] > 0 /\ b[2] > 0 /\ a[1] * b[2] <= b[1] * a[2]

\* the level is exactly 0 dB: log10 of the ratio 1
IsZeroDb(a) == a[2] > 0 /\ a[1] = a[2]

AnalysisInit ==
    /\ pc = "analyze"
    /\ rir \in Responses
    /\ edc = << >>
    /\ edcDb = << >>
    /\ noiseFloor = << >>
    /\ estimates = << >>
    /\ audio_buffer = << >>
    /\ bytes_played = 0
    /\ bytes_recorded = 0
    /\ I2Sout = FALSE
    /\ I2Sin = FALSE
    /\ envScale = Unset
    /\ chirpTail = 0
    /\ clip = 0
    /\ files = << >>
    /\ opens = << >>
    /\ serial = << >>
    /\ outStall = FALSE
    /\ inStall = FALSE
    /\ first = "none"
    /\ rirOutcome = "none"
    /\ allFull = TRUE
    /\ nameLen = << >>
    /\ strBytes = << >>

\* analyze(rir), step 1: the Energy Decay Curve
Analyze ==
    /\ pc = "analyze"
    /\ edc' = EnergyDecayCurve(rir)
    /\ pc' = "analyzed"
    /\ UNCHANGED << audio_buffer, bytes_played, bytes_recorded, I2Sout, I2Sin,
                    envScale, chirpTail, clip, files, opens, serial,
                    outStall, inStall, first, rirOutcome, rir, edcDb,
                    noiseFloor, estimates >>
    /\ UNCHANGED allFull
    /\ UNCHANGED nameVars

AnalysisNext == Next \/ Analyze

\* the firmware session, or the analysis of an arbitrary response
AnalysisSpec == (Init \/ AnalysisInit) /\ [][AnalysisNext]_vars

---------------------------------------------------------------------------
(* Decay analysis, steps 2 and 3: noise floor and the T60 estimators.      *)
(* The estimators read a decay curve in dB; the curves are synthetic ones, *)
(* a straight decay of a whole number of dB per sample that flattens at a  *)
(* floor.  Times are counted in samples; a slope and a T60 are fractions   *)
(* <<num, den>>.                                                           *)

Methods == { "T20", "T25", "T30" }

\* the decay windows: from -5 dB down to -25, -30 and -35 dB
WindowUpper == -5
WindowLower(m) == IF m = "T20" THEN -25 ELSE IF m = "T25" THEN -30 ELSE -35

\* the minimum count of points a regression needs
MinPoints == 2

\* number of samples of a synthetic decay curve
EdcLen == 10

\* decay per sample and floor level of the synthetic curves; the lowest
\* floor lies below every curve, which then never flattens
DecaySteps == { 3, 5, 15 }
FloorLevels == { -20, -29, -30, -35, -200 }

SyntheticEdc(step, floor) ==
    [ t \in 1..EdcLen |->
        IF -step * (t - 1) > floor THEN -step * (t - 1) ELSE floor ]

\* step 2: the level at which the curve flattens (zero slope from one
\* sample to the next), << >> when it never does
DetectFloor(lv) ==
    LET flat == { t \in 1..(Len(lv) - 1) : lv[t + 1] = lv[t] }
    IN  IF flat = { } THEN << >>
        ELSE << lv[CHOOSE t \in flat : \A u \in flat : t <= u] >>

\* level x lies above the detected floor
AboveFloor(x, fl) == fl = << >> \/ x > fl[1]

\* the samples strictly inside the window of method m and above the floor
WindowPoints(m, lv, fl) ==
    { t \in 1..Len(lv) :
        /\ lv[t] < WindowUpper
        /\ lv[t] > WindowLower(m)
        /\ AboveFloor(lv[t], fl) }

\* least-squares slope of level against time over the points pts
FitSlope(pts, lv) ==
    LET n == Cardinality(pts)
        sx[t \in 0..Len(lv)] ==
            IF t = 0 THEN 0 ELSE sx[t - 1] + (IF t \in pts THEN t ELSE 0)
        sy[t \in 0..Len(lv)] ==
            IF t = 0 THEN 0 ELSE sy[t - 1] + (IF t \in pts THEN lv[t] ELSE 0)
        sxy[t \in 0..Len(lv)] ==
            IF t = 0 THEN 0 ELSE sxy[t - 1] + (IF t \in pts THEN t * lv[t] ELSE 0)
        sxx[t \in 0..Len(lv)] ==
            IF t = 0 THEN 0 ELSE sxx[t - 1] + (IF t \in pts THEN t * t ELSE 0)
        N == Len(lv)
    IN  << n * sxy[N] - sx[N] * sy[N], n * sxx[N] - sx[N] * sx[N] >>

\* the estimator that extrapolates whether or not its window reaches the floor
Estimator_IgnoreFloor(m, lv, fl) ==
    LET pts == WindowPoints(m, lv, fl)
        ok == Cardinality(pts) >= MinPoints
        slope == FitSlope(pts, lv)
    IN  IF ok
        THEN [ method |-> m, valid |-> TRUE,
               t60 |-> << -60 * slope[2], slope[1] >> ]
        ELSE [ method |-> m, valid |-> FALSE, t60 |-> << >> ]

\* step 3 for one method: valid only with enough points in the window and
\* a window whose lower bound lies above the floor; t60 = -60 / slope
Estimator(m, lv, fl) ==
    LET pts == WindowPoints(m, lv, fl)
        ok == /\ Cardinality(pts) >= MinPoints
              /\ AboveFloor(WindowLower(m), fl)
        slope == FitSlope(pts, lv)
    IN  IF ok
        THEN [ method |-> m, valid |-> TRUE,
               t60 |-> << -60 * slope[2], slope[1] >> ]
        ELSE [ method |-> m, valid |-> FALSE, t60 |-> << >> ]

EstimateInit ==
    /\ pc = "estimate"
    /\ \E step \in DecaySteps, floor \in FloorLevels :
         edcDb = SyntheticEdc(step, floor)
    /\ noiseFloor = << >>
    /\ estimates = << >>
    /\ rir = << >>
    /\ edc = << >>
    /\ audio_buffer = << >>
    /\ bytes_played = 0
    /\ bytes_recorded = 0
    /\ I2Sout = FALSE
    /\ I2Sin = FALSE
    /\ envScale = Unset
    /\ chirpTail = 0
    /\ clip = 0
    /\ files = << >>
    /\ opens = << >>
    /\ serial = << >>
    /\ outStall = FALSE
    /\ inStall = FALSE
    /\ first = "none"
    /\ rirOutcome = "none"
    /\ allFull = TRUE
    /\ nameLen = << >>
    /\ strBytes = << >>

\* analyze(rir), steps 2 and 3: the floor, then every estimator in turn
Estimate ==
    /\ pc = "estimate"
    /\ noiseFloor' = DetectFloor(edcDb)
    /\ estimates' = [ m \in Methods |-> Estimator(m, edcDb, noiseFloor') ]
    /\ pc' = "estimated"
    /\ UNCHANGED << audio_buffer, bytes_played, bytes_recorded, I2Sout, I2Sin,
                    envScale, chirpTail, clip, files, opens, serial,
                    outStall, inStall, first, rirOutcome, rir, edc, edcDb >>
    /\ UNCHANGED allFull
    /\ UNCHANGED nameVars

EstimateNext == Next \/ Estimate

\* the firmware session, or the estimation on a synthetic decay curve
EstimateSpec == (Init \/ EstimateInit) /\ [][EstimateNext]_vars

---------------------------------------------------------------------------
(* The directory and file names of a session.  getUserInput reads the      *)
(* label and the session id as Strings of any length; the sprintf calls    *)
(* copy them into fixed char arrays.  Only the lengths matter here.        *)

\* char base_path[64]
BASE_PATH_SIZE == 64

\* char filename[128] in runRIRCapture and in runPassiveCapture
FILENAME_SIZE == 128

\* lengths of the label and of the session id the operator may enter
LabelLens == { 1, 5, 39, 40, 43, 44, 46, 47, 100 }
IdLens == { 1, 15 }

\* label + "_" + session_id
BaseFilenameLen(label, id) == label + 1 + id

\* characters "%02d" prints for the clip index i
ClipDigits(i) == IF i < 100 THEN 2 ELSE 3

\* bytes sprintf(base_path, "/%s", base_filename) stores, with the NUL
BasePathBytes(n) == 1 + n + 1

\* bytes sprintf(filename, "%s/RIR_%s.wav", base_path, base_filename) stores
RirFilenameBytes(n) == (1 + n) + 5 + n + 4 + 1

\* bytes sprintf(filename, "%s/PASSIVE_%s_%02d.wav", ...) stores for clip i
PassiveFilenameBytes(n, i) == (1 + n) + 9 + n + 1 + ClipDigits(i) + 4 + 1

NameInit ==
    /\ pc = "names"
    /\ nameLen \in LabelLens \X IdLens
    /\ strBytes = << >>
    /\ rir = << >>
    /\ edc = << >>
    /\ edcDb = << >>
    /\ noiseFloor = << >>
    /\ estimates = << >>
    /\ audio_buffer = << >>
    /\ bytes_played = 0
    /\ bytes_recorded = 0
    /\ I2Sout = FALSE
    /\ I2Sin = FALSE
    /\ envScale = Unset
    /\ chirpTail = 0
    /\ clip = 0
    /\ files = << >>
    /\ opens = << >>
    /\ serial = << >>
    /\ outStall = FALSE
    /\ inStall = FALSE
    /\ first = "none"
    /\ rirOutcome = "none"
    /\ allFull = TRUE

\* the three sprintf calls of a session, for the longest clip index
BuildNames ==
    /\ pc = "names"
    /\ LET n == BaseFilenameLen(nameLen[1], nameLen[2])
       IN  strBytes' = [ base_path |-> BasePathBytes(n),
                         rir |-> RirFilenameBytes(n),
                         passive |-> PassiveFilenameBytes(n, NumClips) ]
    /\ pc' = "named"
    /\ UNCHANGED << audio_buffer, bytes_played, bytes_recorded, I2Sout, I2Sin,
                    envScale, chirpTail, clip, files, opens, serial,
                    outStall, inStall, first, rirOutcome, allFull, nameLen >>
    /\ UNCHANGED analysisVars

NameNext == Next \/ BuildNames

\* the firmware session, or the name construction for arbitrary lengths
NameSpec == (Init \/ NameInit) /\ [][NameNext]_vars

---------------------------------------------------------------------------
(* The earlier sketch: applyGain after the full-duplex capture *)

\* #define RIR_VOLUME_GAIN 2.0
RIR_VOLUME_GAIN == 2

\* the captured samples the gain is exercised on
GainVals == { -32768, -16385, -16384, -1, 0, 1, 16383, 16384, 32767 }

\* one sample through the loop body of applyGain, without the two clamps
applyGainSample_NoClamp(v) == v * RIR_VOLUME_GAIN

\* one sample through the loop body of applyGain: multiply in 32 bits, clamp
applyGainSample(v) ==
    LET s == v * RIR_VOLUME_GAIN
    IN  IF s > 32767 THEN 32767 ELSE IF s < -32768 THEN -32768 ELSE s

\* buf after applyGain(): every sample of the RIR buffer, stored as int16
applyGain(buf) ==
    [ k \in 1..Len(buf) |->
        IF k <= RIR_BUFFER_SIZE_BYTES
        THEN << "gained",
                ByteOf(applyGainSample(SampleAt(buf, (k - 1) \div 2)),
                       (k - 1) % 2) >>
        ELSE buf[k] ]

\* the buffer when the duplex loop of the earlier sketch has ended: the
\* recorded prefix over the unscaled chirp that generateChirp left
CapturedBuffer(v, tail) ==
    [ k \in 1..RIR_BUFFER_SIZE_BYTES |->
        IF k <= BYTES_PER_SAMPLE
        THEN << "mic", ByteOf(v, k - 1) >>
        ELSE << "chirp", ByteOf(Chirp((k - 1) \div 2, tail), (k - 1) % 2) >> ]

\* the earlier sketch at the exit of its duplex loop
GainInit ==
    /\ pc = "gain_end"
    /\ \E v \in GainVals, tail \in TailVals :
         /\ audio_buffer = CapturedBuffer(v, tail)
         /\ chirpTail = tail
    /\ bytes_played = RIR_BUFFER_SIZE_BYTES
    /\ bytes_recorded = BYTES_PER_SAMPLE
    /\ I2Sout = TRUE
    /\ I2Sin = TRUE
    /\ envScale = Unset
    /\ clip = 0
    /\ files = << >>
    /\ opens = << >>
    /\ serial = << >>
    /\ outStall = FALSE
    /\ inStall = FALSE
    /\ first = "write"
    /\ rirOutcome = "none"
    /\ allFull = TRUE
    /\ rir = << >>
    /\ edc = << >>
    /\ edcDb = << >>
    /\ noiseFloor = << >>
    /\ estimates = << >>
    /\ nameLen = << >>
    /\ strBytes = << >>

\* I2Sout.end(); I2Sin.end(); after the duplex loop
GainEndDevices ==
    /\ pc = "gain_end"
    /\ I2Sout' = FALSE
    /\ I2Sin' = FALSE
    /\ outStall' = FALSE
    /\ inStall' = FALSE
    /\ serial' = Append(serial, Msg("Playback & recording finished.", 0))
    /\ pc' = "gain"
    /\ UNCHANGED << audio_buffer, bytes_played, bytes_recorded, envScale,
                    chirpTail, clip, files, opens, first, rirOutcome >>
    /\ UNCHANGED analysisVars
    /\ UNCHANGED allFull
    /\ UNCHANGED nameVars

\* applyGain();
GainApply ==
    /\ pc = "gain"
    /\ audio_buffer' = applyGain(audio_buffer)
    /\ serial' = Append(serial, Msg("Applying gain of", RIR_VOLUME_GAIN))
    /\ pc' = "gain_save"
    /\ UNCHANGED << bytes_played, bytes_recorded, I2Sout, I2Sin, envScale,
                    chirpTail, clip, files, opens, outStall, inStall, first,
                    rirOutcome >>
    /\ UNCHANGED analysisVars
    /\ UNCHANGED allFull
    /\ UNCHANGED nameVars

\* sprintf(filename, ...); saveWAV(filename, RIR_BUFFER_SIZE_BYTES);
GainSave ==
    /\ pc = "gain_save"
    /\ \E ok \in BOOLEAN :
         /\ saveWAV(RirName, RIR_BUFFER_SIZE_BYTES, ok)
         /\ serial' = serial \o saveWAVLog(ok, 0)
                             \o << Msg("RIR saved to", 0) >>
    /\ rirOutcome' = "captured"
    /\ pc' = "confirm2"
    /\ UNCHANGED << audio_buffer, bytes_played, bytes_recorded, I2Sout, I2Sin,
                    envScale, chirpTail, clip, outStall, inStall, first >>
    /\ UNCHANGED analysisVars
    /\ UNCHANGED allFull
    /\ UNCHANGED nameVars

GainNext == Next \/ GainEndDevices \/ GainApply \/ GainSave

\* the firmware session, or the earlier sketch from the end of its capture
GainSpec == (Init \/ GainInit) /\ [][GainNext]_vars

---------------------------------------------------------------------------
(* Properties *)

InitFailures == { "tx_init_failed_stage1", "tx_init_failed", "rx_init_failed" }

Printed(m) == \E n \in 1..Len(serial) : serial[n].msg = m

\* C1: every byte the duplex loop hands to I2Sout.write at buffer offset k
\* is the stimulus byte generated for offset k, whatever the partial
\* return values of the write and read calls were
C1_StimulusPlayedUnmodified ==
    [][ (pc = "dx_write" /\ pc' = "dx_read") =>
          \A k \in bytes_played..(bytes_played' - 1) :
             audio_buffer[k + 1] = StimulusCell(k, chirpTail, envScale) ]_vars

\* C2: in the duplex run the first transfer is never made by the output
\* stream: the first I2Sin.readBytes does not come after the first
\* I2Sout.write
C2_CaptureBeginsNoLaterThanPlayback == first # "out"

\* C3: when the duplex run has ended, every byte of the recording that no
\* microphone read filled is silence (0); none still holds stimulus data
C3_UnfilledIsSilence ==
    (pc = "confirm2" /\ rirOutcome = "captured") =>
       \A k \in 1..RIR_BUFFER_SIZE_BYTES :
          audio_buffer[k][1] = "mic" \/ audio_buffer[k] = Zero

\* C4: when a device fails to initialize in runRIRCapture, the duplex loop
\* makes no transfer and no RIR file is opened or written
C4_InitFailureAborts ==
    rirOutcome \in InitFailures =>
       /\ first = "none"
       /\ \A n \in 1..Len(opens) : opens[n] # RirName
       /\ \A n \in 1..Len(files) : files[n].name # RirName

C4_Witness == rirOutcome = "rx_init_failed" /\ pc = "done"

\* C5: no success message is printed for a capture that was aborted on a
\* device-init error or whose WAV file could not be opened
C5_NoMisleadingSuccess ==
    /\ \A n \in 1..Len(serial) :
          serial[n].msg \in { "Raw RIR data saved to", "Saved" } =>
             n > 1 /\ serial[n - 1].msg # "ERROR: Cannot open file"
    /\ Printed("Data collection complete.") =>
          /\ ~Printed("ERROR: I2S TX init failed!")
          /\ ~Printed("ERROR: I2S PDM init failed!")

\* C6: whenever control is outside runRIRCapture and runPassiveCapture, no
\* I2S device is begun: every path out of them ended what it had begun
C6_DevicesReleased ==
    pc \in { "setup", "halt", "input", "confirm1", "rir", "confirm2",
             "passive", "complete", "done" } =>
       ~I2Sout /\ ~I2Sin

C6_Witness == pc = "confirm2" /\ rirOutcome = "rx_init_failed"

\* C7: each transfer loop (test-chirp playback, duplex, passive clip) is
\* left after finitely many steps, also when a device moves 0 bytes on
\* every call
C7_LoopsTerminate ==
    /\ (pc = "cal_loop") ~> (pc # "cal_loop")
    /\ (pc \in { "dx_write", "dx_read" }) ~> (pc \notin { "dx_write", "dx_read" })
    /\ (pc = "p_read") ~> (pc # "p_read")

\* C8: the buffer handed to computeEnvironmentScaleFromTestBurst holds
\* microphone data recorded while the burst was played
C8_BurstBufferHoldsMicData ==
    (pc = "cal_loop" /\ bytes_played >= TestBytes) =>
       \E k \in 1..TestBytes : audio_buffer[k][1] = "mic"

\* C9: the scale factor obtained from any measured burst and any target is
\* positive and not greater than 1.0
C9_ScaleInUnitInterval ==
    envScale # Unset =>
       /\ envScale[1] > 0
       /\ envScale[2] > 0
       /\ envScale[1] <= envScale[2]

C9_Witness ==
    /\ pc = "calibrated"
    /\ PeakOf(audio_buffer, TestLen) \in 1..(TargetPeak - 1)
    /\ envScale = << 1, 1 >>

\* C10: no sample of the scaled full-length stimulus exceeds the target
\* peak 31129 in magnitude
C10_ScaledWithinTargetPeak ==
    \A i \in 0..(ChirpLen - 1) :
       ( /\ Len(audio_buffer) = RIR_BUFFER_SIZE_BYTES
         /\ audio_buffer[2 * i + 1][1] = "scaled"
         /\ audio_buffer[2 * i + 2][1] = "scaled" ) =>
            Abs(SampleAt(audio_buffer, i)) <= TargetPeak

C10_Witness ==
    /\ pc = "tx_begin"
    /\ chirpTail = FullScale
    /\ PeakOf(audio_buffer, TestLen) = TargetPeak
    /\ SampleAt(audio_buffer, ChirpLen - 1) = TargetPeak

SilentBurst == \E n \in 1..Len(serial) :
                  serial[n] = Msg("Test burst measured: peak", 0)

\* C11: after a calibration burst with measured peak 0 the session goes on
\* into stage 2 (it neither halts nor returns from stage 1), the scale used
\* is 1.0 and the stimulus in the buffer is the unscaled full chirp
C11_SilentBurstRecovers ==
    SilentBurst =>
       /\ envScale = << 1, 1 >>
       /\ pc \notin { "halt", "cal_loop" }
       /\ rirOutcome # "tx_init_failed_stage1"
       /\ pc = "tx_begin" =>
            \A k \in 0..(RIR_BUFFER_SIZE_BYTES - 1) :
               audio_buffer[k + 1][2] = ByteOf(Chirp(k \div 2, chirpTail), k % 2)

C11_Witness ==
    /\ SilentBurst
    /\ envScale = << 1, 1 >>
    /\ rirOutcome = "captured"

\* little-endian fields read back from a byte sequence at offset off
U16At(h, off) == h[off + 1] + 256 * h[off + 2]
U32At(h, off) == h[off + 1] + 256 * h[off + 2] + 65536 * h[off + 3]
                   + 16777216 * h[off + 4]

\* TRUE in the states that follow a successful saveWAV before the buffer
\* is touched again
JustSaved ==
    /\ pc \in { "confirm2", "p_clip" }
    /\ Len(serial) >= 2
    /\ serial[Len(serial) - 1].msg = "WAV file saved."

\* C12: every file saveWAV wrote is the 44-byte header RIFF, 36+data_size,
\* WAVE, fmt , 16, 1, 1, 16000, 32000, 2, 16, data, data_size followed by
\* exactly data_size bytes taken from the start of the audio buffer
C12_WavLayout ==
    /\ \A n \in 1..Len(files) :
          LET h == files[n].header
              d == files[n].data_size
          IN  /\ Len(h) = 44
              /\ SubSeq(h, 1, 4) = TagRIFF
              /\ U32At(h, 4) = 36 + d
              /\ SubSeq(h, 9, 12) = TagWAVE
              /\ SubSeq(h, 13, 16) = TagFmt
              /\ U32At(h, 16) = 16
              /\ U16At(h, 20) = 1
              /\ U16At(h, 22) = 1
              /\ U32At(h, 24) = 16000
              /\ U32At(h, 28) = 32000
              /\ U16At(h, 32) = 2
              /\ U16At(h, 34) = 16
              /\ SubSeq(h, 37, 40) = TagData
              /\ U32At(h, 40) = d
              /\ Len(files[n].data) = d
              /\ Len(h) + Len(files[n].data) = 44 + d
    /\ JustSaved =>
          files[Len(files)].data =
             SubSeq(audio_buffer, 1, files[Len(files)].data_size)

C12_Witness ==
    /\ Len(files) = 2
    /\ files[1].name = RirName
    /\ files[1].data_size = RIR_BUFFER_SIZE_BYTES
    /\ files[2].data_size = PASSIVE_BUFFER_SIZE

\* the number of 16-bit samples a persisted file carries
SamplesIn(f) == Len(f.data) \div BYTES_PER_SAMPLE

\* C13: whatever the devices return per call, the persisted RIR file carries
\* exactly ChirpLen samples (RIR_BUFFER_SIZE_BYTES data bytes) and every
\* persisted passive clip exactly PassiveLen samples (PASSIVE_BUFFER_SIZE
\* data bytes)
C13_PersistedLength ==
    \A n \in 1..Len(files) :
       LET f == files[n]
       IN  /\ Len(f.data) % BYTES_PER_SAMPLE = 0
           /\ f.name.kind = "RIR" =>
                 /\ SamplesIn(f) = ChirpLen
                 /\ Len(f.data) = RIR_BUFFER_SIZE_BYTES
           /\ f.name.kind = "PASSIVE" =>
                 /\ SamplesIn(f) = PassiveLen
                 /\ Len(f.data) = PASSIVE_BUFFER_SIZE

\* an RIR file saved after reads that came back short, then a passive clip
C13_Witness ==
    /\ Len(files) >= 2
    /\ files[1].name = RirName
    /\ bytes_played >= RIR_BUFFER_SIZE_BYTES
    /\ \E k \in 1..Len(files[1].data) : files[1].data[k][1] # "mic"
    /\ files[2].name = PassiveName(1)

IsPassive(n) == n.kind = "PASSIVE"

\* the clip names handed to saveWAV so far, in call order
PassiveOpens == SelectSeq(opens, IsPassive)

\* TRUE once I2Sin.begin of the passive phase has succeeded
PassiveMicUp == pc \in { "p_clip", "p_read" } \/
                (pc \in { "complete", "done" }
                   /\ \A n \in 1..Len(serial) :
                         serial[n] # Msg("ERROR: I2S PDM init failed!", 1))

\* C14: in a passive phase whose microphone initialised, the clips handed
\* to saveWAV are clip 1, 2, ... in this order; while clip i is recorded
\* exactly the clips 1..i-1 have been handed over; a clip is handed over
\* only when exactly PASSIVE_BUFFER_SIZE bytes have been read for it; and
\* when the phase returns, exactly NumClips clips have been recorded
C14_PassiveClipsInOrder ==
    /\ \A j \in 1..Len(PassiveOpens) : PassiveOpens[j] = PassiveName(j)
    /\ PassiveMicUp =>
          /\ pc \in { "p_clip", "p_read" } =>
                /\ clip \in 1..(NumClips + 1)
                /\ Len(PassiveOpens) = clip - 1
          /\ pc = "p_read" => clip <= NumClips
          /\ (pc = "p_clip" /\ clip > 1) =>
                /\ bytes_recorded = PASSIVE_BUFFER_SIZE
                /\ \A k \in 1..PASSIVE_BUFFER_SIZE : audio_buffer[k][1] = "mic"
          /\ pc \in { "complete", "done" } => Len(PassiveOpens) = NumClips
    /\ \A n \in 1..Len(files) :
          IsPassive(files[n].name) =>
             \A k \in 1..Len(files[n].data) : files[n].data[k][1] = "mic"

\* the passive phase has returned after recording NumClips clips
C14_Witness ==
    /\ pc = "complete"
    /\ PassiveMicUp
    /\ Len(PassiveOpens) = NumClips
    /\ clip = NumClips + 1

\* TRUE when saveWAV has been called for the file name
HandedToSaveWAV(name) == \E n \in 1..Len(opens) : opens[n] = name

\* C15: the phases use the devices one after the other. begin() is never
\* called on a device that is already begun (I2Sout.begin at "rir" and
\* "tx_begin", I2Sin.begin at "rx_begin" and "passive"); the output is begun
\* only during the burst and the duplex run, the input only during the
\* duplex run and the passive clips; and a passive clip overwrites the
\* buffer only after the RIR recording, if one was made, and every earlier
\* clip have been handed to saveWAV
C15_OneCaptureInFlight ==
    /\ pc \in { "rir", "tx_begin" } => ~I2Sout
    /\ pc \in { "rx_begin", "passive" } => ~I2Sin
    /\ I2Sout => pc \in { "cal_loop", "rx_begin", "dx_write", "dx_read" }
    /\ I2Sin => pc \in { "dx_write", "dx_read", "p_clip", "p_read" }
    /\ pc = "cal_loop" => opens = << >>
    /\ pc \in { "dx_write", "dx_read" } => opens = << >>
    /\ pc \in { "p_clip", "p_read" } =>
          /\ ~I2Sout
          /\ rirOutcome = "captured" => HandedToSaveWAV(RirName)
          /\ \A j \in 1..(clip - 1) : HandedToSaveWAV(PassiveName(j))

\* the second passive clip is being recorded after a completed RIR capture
C15_Witness ==
    /\ pc = "p_read"
    /\ clip = 2
    /\ bytes_recorded > 0
    /\ rirOutcome = "captured"
    /\ HandedToSaveWAV(RirName)

\* how many times computeEnvironmentScaleFromTestBurst has reported a peak
Derivations ==
    Cardinality({ n \in 1..Len(serial) :
                    serial[n].msg = "Test burst measured: peak" })

\* the states between the scaling loop and the first transfer of stage 2
BeforeFullPlayback ==
    \/ pc \in { "tx_begin", "rx_begin" }
    \/ pc = "dx_write" /\ first = "none"

\* C16: the scale is measured at most once, and exactly once in every
\* session that gets past stage 1; before the first byte of the full-length
\* playback is written, every sample of the buffer is the generated chirp
\* sample multiplied by that scale one time
C16_ScaledOnceBeforePlayback ==
    /\ Derivations <= 1
    /\ (envScale # Unset) <=> (Derivations = 1)
    /\ first # "none" => Derivations = 1
    /\ BeforeFullPlayback =>
          /\ Derivations = 1
          /\ bytes_played = 0 \/ pc # "dx_write"
          /\ \A k \in 0..(RIR_BUFFER_SIZE_BYTES - 1) :
                audio_buffer[k + 1] = StimulusCell(k, chirpTail, envScale)

\* the full-length playback has written its first bytes with a scale below 1
C16_Witness ==
    /\ pc = "dx_read"
    /\ first = "out"
    /\ bytes_played > 0
    /\ bytes_recorded = 0
    /\ envScale = << TargetPeak, 32766 >>
    /\ Derivations = 1

\* the buffer offsets whose bytes were written by the given step
CellsFrom(kind) == { k \in 1..Len(audio_buffer) : audio_buffer[k][1] = kind }

InInt16(v) == v >= -32768 /\ v <= 32767

\* C17: the burst generated for stage 1 has TestLen samples and the scaled
\* stimulus of stage 2 has ChirpLen samples; every stored sample is the
\* value the arithmetic produced (no 16-bit wrap-around) and lies within
\* [-32768, 32767], after generation and after scaling by a scale in (0, 1]
C17_LengthAndRange ==
    /\ \A i \in 0..(ChirpLen - 1) : InInt16(Chirp(i, chirpTail))
    /\ (pc = "cal_loop" /\ CellsFrom("mic") = { }) =>
          /\ CellsFrom("chirp") = 1..(TestLen * BYTES_PER_SAMPLE)
          /\ \A i \in 0..(TestLen - 1) :
                SampleAt(audio_buffer, i) = Chirp(i, chirpTail)
          /\ \A i \in TestLen..(ChirpLen - 1) : SampleAt(audio_buffer, i) = 0
    /\ BeforeFullPlayback =>
          /\ envScale[1] > 0 /\ envScale[1] <= envScale[2]
          /\ CellsFrom("scaled") = 1..(ChirpLen * BYTES_PER_SAMPLE)
          /\ \A i \in 0..(ChirpLen - 1) :
                /\ SampleAt(audio_buffer, i) =
                      ScaleSample(Chirp(i, chirpTail), envScale)
                /\ InInt16(ScaleSample(Chirp(i, chirpTail), envScale))
                /\ Abs(SampleAt(audio_buffer, i)) <= Abs(Chirp(i, chirpTail))

\* the full stimulus scaled by 31129/32768, ready for playback
C17_Witness ==
    /\ pc = "rx_begin"
    /\ envScale = << TargetPeak, 32768 >>
    /\ CellsFrom("scaled") = 1..(ChirpLen * BYTES_PER_SAMPLE)
    /\ SampleAt(audio_buffer, Len(ChirpHead) - 1) =
          ScaleSample(ChirpHead[Len(ChirpHead)], envScale)

\* C19: the data of the persisted RIR file are exactly the bytes the
\* microphone delivered during the duplex run, in every state from the
\* save to the end of the session (nothing alters them before or after)
C19_RawCapturePersisted ==
    \A n \in 1..Len(files) :
       files[n].name = RirName =>
          /\ Len(files[n].data) = RIR_BUFFER_SIZE_BYTES
          /\ \A k \in 1..Len(files[n].data) :
                files[n].data[k] = << "mic", MicByte >>

\* C20: the Energy Decay Curve of a response, obtained by reverse
\* cumulative summation of the squared samples, has one level per sample,
\* never rises from one sample to the next, and starts at exactly 0 dB
C20_EdcMonotone ==
    pc = "analyzed" =>
       /\ Len(edc) = Len(rir)
       /\ IsZeroDb(edc[1])
       /\ \A t \in 1..(Len(edc) - 1) : LevelLeq(edc[t + 1], edc[t])
       /\ \A t \in 1..Len(edc) : LevelLeq(edc[t], edc[1])

\* a curve that really decays, from a response that starts with a negative
\* sample and ends with a zero sample
C20_Witness ==
    /\ pc = "analyzed"
    /\ rir[1] < 0
    /\ rir[Len(rir)] = 0
    /\ \E t \in 1..(Len(edc) - 1) : ~LevelLeq(edc[t], edc[t + 1])
    /\ edc[Len(edc)][1] = 0

\* the window of method m reaches to or below the detected floor
ReachesFloor(m) == noiseFloor # << >> /\ WindowLower(m) <= noiseFloor[1]

\* fewer than MinPoints samples of the curve lie strictly inside the window
\* of method m and above the floor
TooFewPoints(m) ==
    Cardinality({ t \in 1..Len(edcDb) :
                    /\ edcDb[t] < WindowUpper
                    /\ edcDb[t] > WindowLower(m)
                    /\ (noiseFloor = << >> \/ edcDb[t] > noiseFloor[1]) })
       < MinPoints

\* C21: after the estimation every method has a report and the curve is
\* still there; a method whose window reaches the floor or holds too few
\* points is reported valid = FALSE with no t60 value, every other method
\* is reported valid with a positive t60 whatever the others did; with the
\* floor at -29 dB on the 5 dB per sample curve T30 and T25 are invalid
\* while T20 is valid
C21_EstimatorsIndependent ==
    pc = "estimated" =>
       /\ DOMAIN estimates = Methods
       /\ Len(edcDb) = EdcLen /\ edcDb[1] = 0
       /\ \A m \in Methods :
             /\ estimates[m].method = m
             /\ (ReachesFloor(m) \/ TooFewPoints(m)) =>
                   /\ ~estimates[m].valid
                   /\ estimates[m].t60 = << >>
             /\ ~(ReachesFloor(m) \/ TooFewPoints(m)) =>
                   /\ estimates[m].valid
                   /\ Len(estimates[m].t60) = 2
                   /\ estimates[m].t60[1] * estimates[m].t60[2] > 0
       /\ (noiseFloor = << -29 >> /\ edcDb[2] = -5) =>
             /\ estimates["T20"].valid
             /\ ~estimates["T25"].valid
             /\ ~estimates["T30"].valid

\* the floor was detected at -29 dB: T20 is valid and gives 60 / 5 samples,
\* T30 is not
C21_Witness ==
    /\ pc = "estimated"
    /\ noiseFloor = << -29 >>
    /\ estimates["T20"].valid
    /\ estimates["T20"].t60[1] = 12 * estimates["T20"].t60[2]
    /\ ~estimates["T30"].valid
    /\ estimates["T30"].t60 = << >>

\* the chunk the next transfer call of the current loop asks for
NextPlayChunk(limit) == Min(ChunkBytes, limit - bytes_played)
NextRecordChunk == Min(ChunkBytes, RIR_BUFFER_SIZE_BYTES - bytes_recorded)

\* the cursors and the range of the next call lie inside the buffer
CursorsInside ==
    /\ pc = "cal_loop" =>
          /\ bytes_played >= 0 /\ bytes_played <= TestBytes
          /\ bytes_played < TestBytes =>
                /\ NextPlayChunk(TestBytes) >= 0
                /\ bytes_played + NextPlayChunk(TestBytes) <= Len(audio_buffer)
    /\ pc \in { "dx_write", "dx_read" } =>
          /\ bytes_played >= 0 /\ bytes_played <= RIR_BUFFER_SIZE_BYTES
          /\ bytes_recorded >= 0 /\ bytes_recorded <= RIR_BUFFER_SIZE_BYTES
          /\ NextPlayChunk(RIR_BUFFER_SIZE_BYTES) >= 0
          /\ bytes_played + NextPlayChunk(RIR_BUFFER_SIZE_BYTES) <= Len(audio_buffer)
          /\ NextRecordChunk >= 0
          /\ bytes_recorded + NextRecordChunk <= Len(audio_buffer)
    /\ pc = "p_read" =>
          /\ bytes_recorded >= 0 /\ bytes_recorded <= PASSIVE_BUFFER_SIZE
          /\ PASSIVE_BUFFER_SIZE <= Len(audio_buffer)

\* a step that stays inside one transfer loop
LoopStep ==
    \/ pc = "cal_loop" /\ pc' = "cal_loop"
    \/ pc \in { "dx_write", "dx_read" } /\ pc' \in { "dx_write", "dx_read" }
    \/ pc = "p_read" /\ pc' = "p_read"

\* C22: in the calibration playback loop, the duplex loop and the passive
\* recording loop the cursors stay within 0 and the size of the phase, the
\* byte range of every transfer call lies inside the allocated buffer, and
\* no step of a loop decreases a cursor, for every return value from 0 to
\* the requested chunk
C22_CursorsInBuffer ==
    /\ []CursorsInside
    /\ [][LoopStep => /\ bytes_played' >= bytes_played
                      /\ bytes_recorded' >= bytes_recorded
                      /\ bytes_played' - bytes_played <= ChunkBytes
                      /\ Len(audio_buffer') = Len(audio_buffer)]_vars

\* the recording cursor has reached the end of the buffer while bytes are
\* still to be played, so the next read asks for 0 bytes
C22_Witness ==
    /\ pc = "dx_read"
    /\ bytes_recorded = RIR_BUFFER_SIZE_BYTES
    /\ bytes_played < RIR_BUFFER_SIZE_BYTES
    /\ bytes_played > 0

\* C23: while every I2Sout.write of the duplex loop has accepted its whole
\* chunk, the recording cursor is never ahead of the playback cursor, the
\* bytes the microphone has overwritten all lie below the playback cursor,
\* and every byte still to be played is the stimulus byte of its offset
C23_CaptureBehindPlayback ==
    (pc \in { "dx_write", "dx_read" } /\ allFull) =>
       /\ bytes_recorded <= bytes_played
       /\ \A k \in 1..Len(audio_buffer) :
             /\ audio_buffer[k][1] = "mic" => k <= bytes_played
             /\ k > bytes_played =>
                   audio_buffer[k] = StimulusCell(k - 1, chirpTail, envScale)

\* two full chunks played and two full chunks recorded over them
C23_Witness ==
    /\ pc = "dx_write"
    /\ allFull
    /\ bytes_played = 2 * ChunkBytes
    /\ bytes_recorded = bytes_played
    /\ audio_buffer[bytes_played][1] = "mic"

\* the phase of runDataAcquisitionSession a position belongs to: 1 input
\* and directory, 2 first confirmation, 3 runRIRCapture, 4 second
\* confirmation, 5 runPassiveCapture, 6 completion message, 7 loop()
PhaseOf(p) ==
    IF p = "setup" THEN 0
    ELSE IF p = "input" THEN 1
    ELSE IF p = "confirm1" THEN 2
    ELSE IF p \in { "rir", "cal_loop", "tx_begin", "rx_begin", "dx_write",
                    "dx_read" } THEN 3
    ELSE IF p = "confirm2" THEN 4
    ELSE IF p \in { "passive", "p_clip", "p_read" } THEN 5
    ELSE IF p = "complete" THEN 6
    ELSE IF p = "done" THEN 7
    ELSE -1

\* what holds in a phase because the earlier phases are over
PhaseOrder ==
    /\ PhaseOf(pc) <= 3 => (clip = 0 /\ ~Printed("Data collection complete."))
    /\ PhaseOf(pc) = 3 => rirOutcome \in { "none" }
    /\ PhaseOf(pc) >= 4 => rirOutcome # "none"
    /\ PhaseOf(pc) \in { 4, 5, 6 } => ~Printed("Data collection complete.")
    /\ PhaseOf(pc) >= 6 =>
          (clip = NumClips + 1 \/
           \E n \in 1..Len(serial) : serial[n] = Msg("ERROR: I2S PDM init failed!", 1))
    /\ PhaseOf(pc) = 7 => serial[Len(serial)] = Msg("Data collection complete.", 0)

\* C24: the session goes through its phases in the one order input and
\* directory, confirmation, RIR capture, confirmation, passive capture,
\* completion message, never skipping one and never going back; the passive
\* capture is entered only from the second confirmation, which follows the
\* return of runRIRCapture whatever way it returned
C24_PhaseOrder ==
    /\ []PhaseOrder
    /\ [][/\ PhaseOf(pc') \in { PhaseOf(pc), PhaseOf(pc) + 1, -1 }
          /\ PhaseOf(pc') = -1 => pc = "setup"
          /\ pc' = "passive" => pc = "confirm2"
          /\ pc = "confirm2" => pc' = "passive"]_vars

\* a passive clip is being recorded although runRIRCapture returned early
\* on the failure of I2Sout.begin
C24_Witness ==
    /\ pc = "p_read"
    /\ bytes_recorded > 0
    /\ rirOutcome = "tx_init_failed"
    /\ Printed("ERROR: I2S TX init failed!")

\* setup() stopped in one of its two while(1) loops
Halted == pc = "halt"

\* nothing of the session has happened
NothingDone ==
    /\ ~I2Sout /\ ~I2Sin
    /\ files = << >> /\ opens = << >>
    /\ bytes_played = 0 /\ bytes_recorded = 0
    /\ clip = 0 /\ rirOutcome = "none" /\ envScale = Unset

\* C25: the session runs only with the SD card initialised and the buffer
\* allocated. After a failure of either, setup stays halted, its error is
\* the only line printed and no device is begun, no byte transferred and
\* no file opened; in every state of the session the buffer is allocated
\* with RIR_BUFFER_SIZE_BYTES bytes
C25_SessionNeedsSdAndBuffer ==
    /\ [](Halted =>
             /\ NothingDone
             /\ audio_buffer = << >>
             /\ Len(serial) = 1
             /\ serial[1].msg \in { "ERROR: SD card init failed!",
                                    "ERROR: Failed to allocate PSRAM buffer!" })
    /\ [](PhaseOf(pc) >= 1 =>
             /\ Len(audio_buffer) = RIR_BUFFER_SIZE_BYTES
             /\ ~Printed("ERROR: SD card init failed!")
             /\ ~Printed("ERROR: Failed to allocate PSRAM buffer!"))
    /\ []((I2Sout \/ I2Sin \/ opens # << >>) =>
             Len(audio_buffer) = RIR_BUFFER_SIZE_BYTES)
    /\ [][Halted => (pc' = "halt" /\ NothingDone')]_vars

\* setup has halted on the failed allocation
C25_Witness ==
    /\ Halted
    /\ serial = << Msg("ERROR: Failed to allocate PSRAM buffer!", 0) >>
    /\ audio_buffer = << >>

\* C26: for every label and session id the three constructed strings, with
\* their terminators, fit the arrays they are written into
C26_NamesFitBuffers ==
    pc = "named" =>
       /\ strBytes.base_path <= BASE_PATH_SIZE
       /\ strBytes.rir <= FILENAME_SIZE
       /\ strBytes.passive <= FILENAME_SIZE

\* C27: while a clip is recorded, the clip area of the buffer holds the
\* bytes read so far followed by cleared bytes only, so nothing older than
\* the memset of this clip is left in it; and every saved clip is made of
\* PASSIVE_BUFFER_SIZE microphone bytes, with no chirp, stimulus, cleared
\* or uninitialised byte in it
C27_ClipIsOwnRecording ==
    /\ pc = "p_read" =>
          \A k \in 1..PASSIVE_BUFFER_SIZE :
             audio_buffer[k] = IF k <= bytes_recorded
                               THEN << "mic", MicByte >> ELSE Zero
    /\ \A n \in 1..Len(files) :
          files[n].name.kind = "PASSIVE" =>
             /\ Len(files[n].data) = PASSIVE_BUFFER_SIZE
             /\ \A k \in 1..PASSIVE_BUFFER_SIZE :
                   files[n].data[k] \notin
                      { Zero, << "uninit", 0 >> } /\
                   files[n].data[k][1] \notin { "chirp", "scaled" }

\* the second clip is being recorded in a buffer whose upper part still
\* holds the stimulus of the RIR capture, the first clip being saved
C27_Witness ==
    /\ pc = "p_read"
    /\ clip = 2
    /\ bytes_recorded > 0 /\ bytes_recorded < PASSIVE_BUFFER_SIZE
    /\ Len(files) >= 1
    /\ files[Len(files)].name = PassiveName(1)
    /\ audio_buffer[RIR_BUFFER_SIZE_BYTES][1] = "scaled"

\* how many times saveWAV has reported that it could not open its file
OpenFailures ==
    Cardinality({ n \in 1..Len(serial) :
                    serial[n].msg = "ERROR: Cannot open file" })

\* a step in which saveWAV failed to open its file
OpenFailedStep ==
    \E n \in (Len(serial) + 1)..Len(serial') :
       serial'[n].msg = "ERROR: Cannot open file"

\* C28: a saveWAV that cannot open its file adds no file and leaves the
\* audio buffer as it was (every call either adds one file or reports the
\* failure), and the flow goes on: from the RIR phase to the second
\* confirmation, from a passive clip to the next clip of the loop
C28_OpenFailureGoesOn ==
    /\ [](Len(files) + OpenFailures = Len(opens))
    /\ [][OpenFailedStep =>
             /\ files' = files
             /\ audio_buffer' = audio_buffer
             /\ Len(opens') = Len(opens) + 1
             /\ pc \in { "dx_write", "p_read" }
             /\ pc = "dx_write" => pc' = "confirm2"
             /\ pc = "p_read" => (pc' = "p_clip" /\ clip' = clip + 1
                                   /\ I2Sin' = I2Sin)]_vars

\* the RIR file and the first clip could not be opened; the second clip
\* was recorded and saved all the same
C28_Witness ==
    /\ OpenFailures = 2
    /\ opens = << RirName, PassiveName(1), PassiveName(2) >>
    /\ Len(files) = 1
    /\ files[1].name = PassiveName(2)
    /\ \A k \in 1..PASSIVE_BUFFER_SIZE : files[1].data[k][1] = "mic"


\* every sample of new is the saturated double of the same sample of old
Saturated(old, new) ==
    \A i \in 0..(ChirpLen - 1) :
       LET s == SampleAt(old, i)
           g == SampleAt(new, i)
       IN  /\ RIR_VOLUME_GAIN * s > 32767 => g = 32767
           /\ RIR_VOLUME_GAIN * s < -32768 => g = -32768
           /\ ( /\ RIR_VOLUME_GAIN * s <= 32767
                /\ RIR_VOLUME_GAIN * s >= -32768 ) => g = RIR_VOLUME_GAIN * s

\* the samples of buf that went through applyGain
Gained(buf) == { k \in 1..Len(buf) : buf[k][1] = "gained" }

\* the gain runs on a raw capture, with both devices ended and nothing saved
GainPlaced ==
    pc = "gain" => /\ ~I2Sout
                   /\ ~I2Sin
                   /\ opens = << >>
                   /\ Gained(audio_buffer) = {}

\* C29: applyGain replaces every sample of the RIR buffer by twice its value
\* saturated to [-32768, 32767] (clamped to the nearest limit when the double
\* leaves the 16-bit range, exactly doubled otherwise, never wrapped), and it
\* runs exactly once, after both devices are ended and before the RIR WAV is
\* saved.
C29_GainSaturatesOnce ==
    /\ []GainPlaced
    /\ [][ /\ pc = "gain" =>
                /\ Saturated(audio_buffer, audio_buffer')
                /\ Gained(audio_buffer') = 1..RIR_BUFFER_SIZE_BYTES
                /\ pc' = "gain_save"
           /\ pc = "gain_save" =>
                /\ audio_buffer' = audio_buffer
                /\ opens' = Append(opens, RirName)
                /\ \A f \in 1..Len(files') :
                      \A k \in 1..RIR_BUFFER_SIZE_BYTES :
                         files'[f].data[k] = audio_buffer[k]
           /\ pc # "gain" => Gained(audio_buffer') \subseteq Gained(audio_buffer)
         ]_vars

\* a RIR saved by the earlier sketch whose first sample was clamped at the
\* positive limit from 16384 and whose second sample, 6392, was doubled
C29_Witness ==
    /\ Len(files) = 1
    /\ files[1].name = RirName
    /\ Gained(files[1].data) = 1..RIR_BUFFER_SIZE_BYTES
    /\ SampleAt(files[1].data, 0) = 32767
    /\ SampleAt(files[1].data, 1) = 12784
    /\ SampleAt(files[1].data, ChirpLen - 1) = -32768
    /\ ~I2Sout
    /\ ~I2Sin

====
